---- MODULE Spec2Model ----
(***************************************************************************)
(* A model of the mini-kv storage engine: WAL + MemTable + SST segments +   *)
(* full compaction + the WAL sync policy (minikv/engine.py, wal.py, sst.py, *)
(* compaction.py).                                                          *)
(*                                                                          *)
(* A string is the sequence of its characters, and a file is its text as    *)
(* one sequence.  The words PUT and DEL and the tombstone sentinel, which   *)
(* share no character with the keys and values of the model, are one        *)
(* element each.  Files are written line by line and read back the way      *)
(* Python's text mode reads them (universal newlines), then split on TAB.   *)
(* Time is counted in ticks of 1/TicksPerSecond s.                          *)
(***************************************************************************)
EXTENDS Integers, Sequences, FiniteSets, TLC

VARIABLES
    config,     \* MiniKVConfig: write_mode, batch_size, batch_interval_ms, memtable_limit
    kv,         \* the MiniKV object (its fields, and the WAL handle's buffer)
    disk,       \* data_dir: the text of the SST files by index, the text of wal.log
    now,        \* time.time(), in ticks
    lastOp,     \* history: the last operation performed, with its arguments
    preView,    \* history: get(k) for every k before the last close/compact_all/crash
    preGet,     \* history: get(k) before the last put/delete, for the key k it wrote
    preSst,     \* history: len(sst_files) before the last operation
    walLog,     \* history: the put/delete calls since the last compact_all
    nWrites,    \* history: put/delete calls made so far
    nCloses,    \* history: close() calls made so far on an open engine
    nCrashes,   \* history: process crashes so far
    raised      \* the error the last call raised, NoError when it returned normally

vars == <<config, kv, disk, now, lastOp, preView, preGet, preSst, walLog, nWrites, nCloses, nCrashes, raised>>

----------------------------------------------------------------------------
(* Bounds of the model *)

MaxWrites == 2
MaxCloses == 1
MaxCrashes == 1
MaxElapsed == 11

(* Characters *)

TAB == "\t"
LF == "\n"
CR == "\r"

(* the code point of a character (of the first character, for a word) *)
Ord(c) ==
    CASE c = TAB -> 9
      [] c = LF -> 10
      [] c = CR -> 13
      [] c = "DEL" -> 68
      [] c = "PUT" -> 80
      [] c = "__MINIKV_TOMBSTONE__" -> 95
      [] c = "a" -> 97
      [] c = "b" -> 98
      [] c = "x" -> 120
      [] c = "y" -> 121

(* Keys and values the callers pass: non-empty, free of TAB and LF, not the
   sentinel.  The plain ones are free of CR as well; the others are "\ra" as
   a key and "x\ry" as a value.  Where the value written does not matter
   (the sync policy) one key and one value are enough. *)

PlainKeys == {<<"a">>, <<"b">>}
PlainValues == {<<"x">>, <<"y">>}
PolicyKeys == {<<"a">>}
PolicyValues == {<<"x">>}
Keys == PlainKeys \cup {<<CR, "a">>}
Values == PlainValues \cup {<<"x", CR, "y">>}

(* Program constants *)

TOMBSTONE == <<"__MINIKV_TOMBSTONE__">>
None == <<"None">>
LOW == 1000
HIGH == 10000
AdaptiveFactor == 4
MsPerSecond == 1000
TicksPerSecond == 10 * MsPerSecond
StartTime == 1000

SYNC == "SYNC"
BATCH == "BATCH"
ADAPTIVE == "ADAPTIVE"

EmptyMap == [k \in {} |-> None]

(* what a call raises: RuntimeError("MiniKV is not open"),
   RuntimeError("WAL is not initialized"), RuntimeError("WAL is not open"),
   OSError from a file operation *)
NoError == "NoError"
NotOpen == "NotOpen"
WalNotInitialized == "WalNotInitialized"
WalNotOpen == "WalNotOpen"
IOError == "IOError"

----------------------------------------------------------------------------
(* Strings and text files *)

(* s < t on str: lexicographic by code point *)
RECURSIVE str_less(_, _, _)
str_less(s, t, i) ==
    IF i > Len(t) THEN FALSE
    ELSE IF i > Len(s) THEN TRUE
    ELSE IF s[i] = t[i] THEN str_less(s, t, i + 1)
    ELSE Ord(s[i]) < Ord(t[i])

MinOf(S) == CHOOSE m \in S : \A x \in S : x = m \/ str_less(m, x, 1)

(* sorted(...) on a set of strings *)
RECURSIVE SortedKeys(_)
SortedKeys(S) == IF S = {} THEN <<>>
                 ELSE LET m == MinOf(S) IN <<m>> \o SortedKeys(S \ {m})

MapSet(m, k, v) == [x \in (DOMAIN m) \cup {k} |-> IF x = k THEN v ELSE m[x]]

(* "for line in f" on a file opened with open(path, "r"), each line followed
   by line.rstrip("\n"): the text is cut at every LF, CR and CR LF, and what
   follows the last terminator is a line when it is not empty *)
RECURSIVE text_lines(_, _, _)
text_lines(text, i, cur) ==
    IF i > Len(text) THEN (IF cur = <<>> THEN <<>> ELSE <<cur>>)
    ELSE IF text[i] = LF THEN <<cur>> \o text_lines(text, i + 1, <<>>)
    ELSE IF text[i] = CR
         THEN <<cur>> \o text_lines(text,
                              IF i < Len(text) /\ text[i + 1] = LF THEN i + 2 ELSE i + 1,
                              <<>>)
    ELSE text_lines(text, i + 1, Append(cur, text[i]))

(* line.split("\t") *)
RECURSIVE split_tab(_, _, _)
split_tab(line, i, cur) ==
    IF i > Len(line) THEN <<cur>>
    ELSE IF line[i] = TAB THEN <<cur>> \o split_tab(line, i + 1, <<>>)
    ELSE split_tab(line, i + 1, Append(cur, line[i]))

(* line.split("\t", 1) *)
split_first_tab(line) ==
    LET tabs == {i \in 1..Len(line) : line[i] = TAB}
    IN IF tabs = {} THEN <<line>>
       ELSE LET p == CHOOSE i \in tabs : \A j \in tabs : i <= j
            IN <<SubSeq(line, 1, p - 1), SubSeq(line, p + 1, Len(line))>>

----------------------------------------------------------------------------
(* wal.py *)

(* WAL.append_put / WAL.append_delete: the line written to the handle's buffer *)
put_record(key, value) == <<"PUT", TAB>> \o key \o <<TAB>> \o value \o <<LF>>
del_record(key) == <<"DEL", TAB>> \o key \o <<LF>>

wal_append(w, rec) == [w EXCEPT !.kv.wal_buf = @ \o rec]

(* WAL.sync and the flush+fsync of WAL.close: the buffer reaches the file *)
wal_sync(w) == [w EXCEPT !.disk.wal = @ \o w.kv.wal_buf, !.kv.wal_buf = <<>>]

(* The engine's WAL: kv.wal says that self.wal is a WAL object, kv.wal_fp that
   the object holds an open file. *)

(* WAL.open: 'a+' creates the file when missing and keeps its contents *)
wal_open(w) == [w EXCEPT !.disk.wal_exists = TRUE, !.kv.wal = TRUE, !.kv.wal_fp = TRUE]

(* WAL.close followed by kv.wal = None *)
wal_close(w) == [wal_sync(w) EXCEPT !.kv.wal = FALSE, !.kv.wal_fp = FALSE]

(* mutant: DEL records are skipped on replay *)
replay_line_skips_del(memtable, line) ==
    LET parts == split_tab(line, 1, <<>>)
    IN IF line = <<>> THEN memtable
       ELSE IF parts[1] = <<"PUT">> /\ Len(parts) >= 3
            THEN MapSet(memtable, parts[2], parts[3])
       ELSE memtable

(* one line of WAL.replay_into *)
replay_line(memtable, line) ==
    LET parts == split_tab(line, 1, <<>>)
    IN IF line = <<>> THEN memtable
       ELSE IF parts[1] = <<"PUT">> /\ Len(parts) >= 3
            THEN MapSet(memtable, parts[2], parts[3])
       ELSE IF parts[1] = <<"DEL">> /\ Len(parts) >= 2
            THEN MapSet(memtable, parts[2], TOMBSTONE)
       ELSE memtable

RECURSIVE replay_lines(_, _, _)
replay_lines(memtable, lines, i) ==
    IF i > Len(lines) THEN memtable
    ELSE replay_lines(replay_line(memtable, lines[i]), lines, i + 1)

replay_into(d, memtable) ==
    IF ~d.wal_exists THEN memtable
    ELSE replay_lines(memtable, text_lines(d.wal, 1, <<>>), 1)

----------------------------------------------------------------------------
(* sst.py *)

SSTFile(path) == [path |-> path, min_key |-> None, max_key |-> None]

(* mutant: the items are written in descending key order *)
sst_items_descending(memtable) ==
    LET ks == SortedKeys(DOMAIN memtable)
    IN [i \in 1..Len(ks) |-> <<ks[Len(ks) + 1 - i], memtable[ks[Len(ks) + 1 - i]]>>]

(* the items of write_from_memtable, sorted by key *)
sst_items(memtable) ==
    LET ks == SortedKeys(DOMAIN memtable)
    IN [i \in 1..Len(ks) |-> <<ks[i], memtable[ks[i]]>>]

(* the text write_from_memtable writes: one line k TAB v LF per item *)
RECURSIVE sst_text(_, _)
sst_text(items, i) ==
    IF i > Len(items) THEN <<>>
    ELSE items[i][1] \o <<TAB>> \o items[i][2] \o <<LF>> \o sst_text(items, i + 1)

(* SSTFile.write_from_memtable: the descriptor it returns *)
sst_written(path, memtable) ==
    LET items == sst_items(memtable)
    IN IF items = <<>> THEN SSTFile(path)
       ELSE [path |-> path, min_key |-> items[1][1], max_key |-> items[Len(items)][1]]

(* the <<k, v>> pairs a reader of an SST file keeps: the lines that are not
   empty and that split("\t", 1) cuts in two *)
sst_entries(text) ==
    LET lines == text_lines(text, 1, <<>>)
        parts == [i \in 1..Len(lines) |-> split_first_tab(lines[i])]
    IN SelectSeq(parts, LAMBDA p : Len(p) = 2)

(* write_from_memtable raising an I/O error from open() or write(): the disks
   it can leave, with the file missing or holding a part of the text *)
sst_write_fails(d, path, text) ==
    {d} \cup {[d EXCEPT !.sst = MapSet(@, path, SubSeq(text, 1, n))] : n \in 0..(Len(text) - 1)}

ensure_min_max_loaded(sst, d) ==
    IF sst.min_key # None /\ sst.max_key # None THEN sst
    ELSE IF sst.path \notin DOMAIN d.sst THEN sst
    ELSE LET valid == sst_entries(d.sst[sst.path])
         IN IF valid = <<>> THEN [sst EXCEPT !.min_key = None, !.max_key = None]
            ELSE [sst EXCEPT !.min_key = valid[1][1], !.max_key = valid[Len(valid)][1]]

RECURSIVE scan(_, _, _)
scan(entries, key, i) ==
    IF i > Len(entries) THEN None
    ELSE IF entries[i][1] = key THEN entries[i][2]
    ELSE scan(entries, key, i + 1)

pruned(sst, key) ==
    /\ sst.min_key # None
    /\ sst.max_key # None
    /\ (str_less(key, sst.min_key, 1) \/ str_less(sst.max_key, key, 1))

(* SSTFile.search: the value returned, and the descriptor after the lazy load *)
search(sst, d, key) ==
    IF sst.path \notin DOMAIN d.sst THEN [val |-> None, sst |-> sst]
    ELSE LET loaded == ensure_min_max_loaded(sst, d)
         IN IF pruned(loaded, key) THEN [val |-> None, sst |-> loaded]
            ELSE [val |-> scan(sst_entries(d.sst[sst.path]), key, 1), sst |-> loaded]

----------------------------------------------------------------------------
(* engine.py: the sync policy *)

(* mutant: high throughput doubles the batch size *)
update_adaptive_batch_size_doubles(cur, pending, elapsed) ==
    IF pending * TicksPerSecond >= HIGH * elapsed THEN config.batch_size * 2
    ELSE IF pending * TicksPerSecond <= LOW * elapsed THEN config.batch_size
    ELSE cur

(* _update_adaptive_batch_size with qps = pending / elapsed, elapsed in ticks *)
update_adaptive_batch_size(cur, pending, elapsed) ==
    IF pending * TicksPerSecond >= HIGH * elapsed THEN config.batch_size * AdaptiveFactor
    ELSE IF pending * TicksPerSecond <= LOW * elapsed THEN config.batch_size
    ELSE cur

(* mutant: a sync with nothing pending updates the adaptive batch size too *)
sync_wal_now_updates_when_idle(w, t) ==
    IF ~w.kv.wal THEN w
    ELSE LET last == w.kv.last_sync_time
             elapsed_defined == last # 0
             elapsed == t - last
             pending == w.kv.pending_wal_ops
             synced == wal_sync(w)
         IN [synced EXCEPT
                !.kv.fsync_count = @ + 1,
                !.kv.pending_wal_ops = 0,
                !.kv.last_sync_time = t,
                !.kv.adaptive_batch_size =
                    IF elapsed_defined /\ elapsed > 0
                    THEN update_adaptive_batch_size(@, pending, elapsed)
                    ELSE @]

(* mutant: the sync is counted but the buffered records are not written out *)
sync_wal_now_keeps_buffer(w, t) ==
    IF ~w.kv.wal THEN w
    ELSE [w EXCEPT
             !.kv.fsync_count = @ + 1,
             !.kv.pending_wal_ops = 0,
             !.kv.last_sync_time = t]

sync_wal_now(w, t) ==
    IF ~w.kv.wal THEN w
    ELSE LET last == w.kv.last_sync_time
             elapsed_defined == last # 0
             elapsed == t - last
             pending == w.kv.pending_wal_ops
             synced == wal_sync(w)
         IN [synced EXCEPT
                !.kv.fsync_count = @ + 1,
                !.kv.pending_wal_ops = 0,
                !.kv.last_sync_time = t,
                !.kv.adaptive_batch_size =
                    IF elapsed_defined /\ elapsed > 0 /\ pending > 0
                    THEN update_adaptive_batch_size(@, pending, elapsed)
                    ELSE @]

(* now - last_sync_time > batch_interval_ms / 1000.0 *)
interval_elapsed(w, t) ==
    (t - w.kv.last_sync_time) * MsPerSecond > config.batch_interval_ms * TicksPerSecond

(* mutant: the batch policy syncs only above batch_size *)
maybe_sync_batch_above_size(w, t) ==
    IF ~w.kv.wal THEN w
    ELSE IF w.kv.pending_wal_ops > config.batch_size THEN sync_wal_now(w, t)
    ELSE IF interval_elapsed(w, t) THEN sync_wal_now(w, t)
    ELSE w

(* mutant: the batch policy syncs after every append *)
maybe_sync_batch_ignores_size(w, t) ==
    IF ~w.kv.wal THEN w ELSE sync_wal_now(w, t)

maybe_sync_batch(w, t) ==
    IF ~w.kv.wal THEN w
    ELSE IF w.kv.pending_wal_ops >= config.batch_size THEN sync_wal_now(w, t)
    ELSE IF interval_elapsed(w, t) THEN sync_wal_now(w, t)
    ELSE w

(* mutant: the adaptive policy syncs on the batch size alone *)
maybe_sync_adaptive_ignores_interval(w, t) ==
    IF ~w.kv.wal THEN w
    ELSE IF w.kv.pending_wal_ops >= w.kv.adaptive_batch_size THEN sync_wal_now(w, t)
    ELSE w

maybe_sync_adaptive(w, t) ==
    IF ~w.kv.wal THEN w
    ELSE IF w.kv.pending_wal_ops >= w.kv.adaptive_batch_size THEN sync_wal_now(w, t)
    ELSE IF interval_elapsed(w, t) THEN sync_wal_now(w, t)
    ELSE w

after_wal_append(w, t) ==
    IF config.write_mode = SYNC THEN sync_wal_now(w, t)
    ELSE IF config.write_mode = BATCH THEN maybe_sync_batch(w, t)
    ELSE IF config.write_mode = ADAPTIVE THEN maybe_sync_adaptive(w, t)
    ELSE w

----------------------------------------------------------------------------
(* engine.py: MemTable, flush, open/close, put/get/delete *)

(* mutant: the open check lets every call through *)
ensure_open_never_raises(w) == TRUE

(* _ensure_open: TRUE when the call goes on, FALSE when it raises NotOpen *)
ensure_open(w) == w.kv.is_open

(* _ensure_wal_initialized: FALSE when it raises *)
ensure_wal_initialized(w) == w.kv.wal

(* mutant: the index of the last segment is used again *)
next_sst_path_reuses_last(w) ==
    IF Len(w.kv.sst_files) = 0 THEN 0 ELSE Len(w.kv.sst_files) - 1

(* _next_sst_path: the index in sst_<index>.txt *)
next_sst_path(w) == Len(w.kv.sst_files)

flush_to_sst(w) ==
    IF DOMAIN w.kv.memtable = {} THEN w
    ELSE LET path == next_sst_path(w)
         IN [w EXCEPT
                !.disk.sst = MapSet(@, path, sst_text(sst_items(w.kv.memtable), 1)),
                !.kv.sst_files = Append(@, sst_written(path, w.kv.memtable)),
                !.kv.memtable = EmptyMap]

maybe_flush_memtable(w) ==
    IF Cardinality(DOMAIN w.kv.memtable) >= config.memtable_limit
    THEN flush_to_sst(w) ELSE w

(* the file names sst_NNNN.txt in sorted order: below 10000 files the order of
   the names is the order of the indices *)
RECURSIVE SortedPaths(_)
SortedPaths(S) ==
    IF S = {} THEN <<>>
    ELSE LET m == CHOOSE p \in S : \A q \in S : p <= q
         IN <<m>> \o SortedPaths(S \ {m})

(* mutant: open() keeps the descriptors the object already holds *)
load_sst_files_keeps_list(w) == w

load_sst_files(w) ==
    LET names == SortedPaths(DOMAIN w.disk.sst)
    IN [w EXCEPT !.kv.sst_files = [i \in 1..Len(names) |-> SSTFile(names[i])]]

replay_wal(w) ==
    IF ~w.kv.wal THEN w
    ELSE [w EXCEPT !.kv.memtable = replay_into(w.disk, @)]

(* mutant: open() has no early return and initialises an open engine again *)
open_initialises_again(w) ==
    LET w1 == [w EXCEPT !.kv.is_open = TRUE, !.kv.memtable = EmptyMap]
        w2 == load_sst_files(w1)
        w3 == wal_open(w2)
    IN replay_wal(w3)

(* open() when WAL.open raises an I/O error: _is_open is set, the MemTable is
   empty, the descriptors are loaded and self.wal is a WAL object without an
   open file; the replay is not reached *)
open_wal_fails(w) ==
    IF w.kv.is_open THEN w
    ELSE LET w1 == [w EXCEPT !.kv.is_open = TRUE, !.kv.memtable = EmptyMap]
             w2 == load_sst_files(w1)
         IN [w2 EXCEPT !.kv.wal = TRUE]

open(w) ==
    IF w.kv.is_open THEN w
    ELSE LET w1 == [w EXCEPT !.kv.is_open = TRUE, !.kv.memtable = EmptyMap]
             w2 == load_sst_files(w1)
             w3 == wal_open(w2)
         IN replay_wal(w3)

close(w, t) ==
    IF ~w.kv.is_open THEN w
    ELSE LET w1 == flush_to_sst(w)
             w2 == IF w1.kv.wal THEN wal_close(sync_wal_now(w1, t)) ELSE w1
         IN [w2 EXCEPT !.kv.is_open = FALSE]

(* mutant: the MemTable assignment is missing from the write path *)
write_skips_memtable(w, rec, key, value, t) ==
    LET w1 == wal_append(w, rec)
        w2 == [w1 EXCEPT !.kv.pending_wal_ops = @ + 1]
        w3 == after_wal_append(w2, t)
    IN maybe_flush_memtable(w3)

(* put and delete past _ensure_open and _ensure_wal_initialized *)
write(w, rec, key, value, t) ==
    LET w1 == wal_append(w, rec)
        w2 == [w1 EXCEPT !.kv.pending_wal_ops = @ + 1]
        w3 == after_wal_append(w2, t)
        w4 == [w3 EXCEPT !.kv.memtable = MapSet(@, key, value)]
    IN maybe_flush_memtable(w4)

put(w, key, value, t) == write(w, put_record(key, value), key, value, t)

(* mutant: delete removes the MemTable entry instead of storing a tombstone *)
delete_removes_entry(w, key, t) ==
    LET w1 == wal_append(w, del_record(key))
        w2 == [w1 EXCEPT !.kv.pending_wal_ops = @ + 1]
        w3 == after_wal_append(w2, t)
        w4 == [w3 EXCEPT !.kv.memtable = [k \in (DOMAIN @) \ {key} |-> @[k]]]
    IN maybe_flush_memtable(w4)


delete(w, key, t) == write(w, del_record(key), key, TOMBSTONE, t)

(* the SST loop of get, newest to oldest: the result and the descriptors
   after the lazy loads of the segments visited *)
RECURSIVE get_ssts(_, _, _, _)
get_ssts(ssts, d, key, i) ==
    IF i < 1 THEN [val |-> None, ssts |-> ssts]
    ELSE LET r == search(ssts[i], d, key)
             loaded == [ssts EXCEPT ![i] = r.sst]
         IN IF r.val = None THEN get_ssts(loaded, d, key, i - 1)
            ELSE IF r.val = TOMBSTONE THEN [val |-> None, ssts |-> loaded]
            ELSE [val |-> r.val, ssts |-> loaded]

memtable_get(memtable, key) == IF key \in DOMAIN memtable THEN memtable[key] ELSE None

(* mutant: the SST loop returns absent at the first segment that misses the key *)
get_stops_at_first_miss(w, key) ==
    LET val == memtable_get(w.kv.memtable, key)
        n == Len(w.kv.sst_files)
    IN IF val # None
       THEN [val |-> IF val = TOMBSTONE THEN None ELSE val, ssts |-> w.kv.sst_files]
       ELSE IF n = 0 THEN [val |-> None, ssts |-> w.kv.sst_files]
       ELSE LET r == search(w.kv.sst_files[n], w.disk, key)
            IN [val |-> IF r.val = TOMBSTONE THEN None ELSE r.val,
                ssts |-> [w.kv.sst_files EXCEPT ![n] = r.sst]]


get(w, key) ==
    LET val == memtable_get(w.kv.memtable, key)
    IN IF val # None
       THEN [val |-> IF val = TOMBSTONE THEN None ELSE val, ssts |-> w.kv.sst_files]
       ELSE get_ssts(w.kv.sst_files, w.disk, key, Len(w.kv.sst_files))

----------------------------------------------------------------------------
(* compaction.py *)

(* mutant: a tombstone does not suppress the older values of its key *)
merge_line_forgets_deleted(m, line) ==
    IF line[1] \in DOMAIN m.merged THEN m
    ELSE IF line[2] = TOMBSTONE THEN m
    ELSE [m EXCEPT !.merged = MapSet(@, line[1], line[2])]

(* mutant: tombstones are merged like values *)
merge_line_keeps_tombstone(m, line) ==
    IF line[1] \in DOMAIN m.merged \/ line[1] \in m.deleted THEN m
    ELSE [m EXCEPT !.merged = MapSet(@, line[1], line[2])]


(* one <<k, v>> of the merge loop *)
merge_line(m, line) ==
    IF line[1] \in DOMAIN m.merged \/ line[1] \in m.deleted THEN m
    ELSE IF line[2] = TOMBSTONE THEN [m EXCEPT !.deleted = @ \cup {line[1]}]
    ELSE [m EXCEPT !.merged = MapSet(@, line[1], line[2])]

RECURSIVE merge_lines(_, _, _)
merge_lines(m, lines, i) ==
    IF i > Len(lines) THEN m ELSE merge_lines(merge_line(m, lines[i]), lines, i + 1)

RECURSIVE merge_ssts(_, _, _, _)
merge_ssts(m, ssts, d, i) ==
    IF i < 1 THEN m
    ELSE IF ssts[i].path \notin DOMAIN d.sst THEN merge_ssts(m, ssts, d, i - 1)
    ELSE merge_ssts(merge_lines(m, sst_entries(d.sst[ssts[i].path]), 1), ssts, d, i - 1)

(* mutant: the in-memory list is cleared but the old files stay on disk *)
remove_ssts_keeps_files(w) == [w EXCEPT !.kv.sst_files = <<>>]

(* mutant: the old files are removed but the in-memory list is not cleared *)
remove_ssts_keeps_list(w) ==
    LET paths == {w.kv.sst_files[i].path : i \in 1..Len(w.kv.sst_files)}
    IN [w EXCEPT !.disk.sst = [p \in (DOMAIN @) \ paths |-> @[p]]]


remove_ssts(w) ==
    LET paths == {w.kv.sst_files[i].path : i \in 1..Len(w.kv.sst_files)}
    IN [w EXCEPT
           !.disk.sst = [p \in (DOMAIN @) \ paths |-> @[p]],
           !.kv.sst_files = <<>>]

(* mutant: the checkpoint reopens the WAL without truncating it *)
checkpoint_wal_no_truncate(w) ==
    IF ~w.kv.wal THEN w
    ELSE [wal_close(w) EXCEPT !.disk.wal_exists = TRUE, !.kv.wal = TRUE, !.kv.wal_fp = TRUE]


checkpoint_wal(w) ==
    IF ~w.kv.wal THEN w
    ELSE [wal_close(w) EXCEPT
             !.disk.wal = <<>>, !.disk.wal_exists = TRUE, !.kv.wal = TRUE, !.kv.wal_fp = TRUE]

compact_all(w) ==
    LET w1 == flush_to_sst(w)
    IN IF w1.kv.sst_files = <<>> THEN w1
       ELSE LET m == merge_ssts([merged |-> EmptyMap, deleted |-> {}],
                                w1.kv.sst_files, w1.disk, Len(w1.kv.sst_files))
                w2 == remove_ssts(w1)
            IN IF DOMAIN m.merged = {} THEN checkpoint_wal(w2)
               ELSE LET path == next_sst_path(w2)
                        w3 == [w2 EXCEPT
                                  !.disk.sst = MapSet(@, path, sst_text(sst_items(m.merged), 1)),
                                  !.kv.sst_files = Append(@, sst_written(path, m.merged))]
                    IN checkpoint_wal(w3)

----------------------------------------------------------------------------
(* The state machine *)

Modes == {SYNC, BATCH, ADAPTIVE}
BatchSizes == {2}
BatchIntervals == {1}
MemtableLimits == {1, 2}

Configs == [write_mode : Modes, batch_size : BatchSizes,
            batch_interval_ms : BatchIntervals, memtable_limit : MemtableLimits]

(* MiniKV.__init__ *)
NewKV == [memtable |-> EmptyMap, sst_files |-> <<>>, wal |-> FALSE, wal_fp |-> FALSE,
          wal_buf |-> <<>>,
          is_open |-> FALSE, pending_wal_ops |-> 0, last_sync_time |-> 0,
          adaptive_batch_size |-> config.batch_size, fsync_count |-> 0]

EmptyDir == [sst |-> EmptyMap, wal |-> <<>>, wal_exists |-> FALSE]

W == [kv |-> kv, disk |-> disk]

View(w) == [k \in Keys |-> get(w, k).val]

NoView == [k \in Keys |-> None]

Op(name, key, val) == [op |-> name, key |-> key, val |-> val]

(* a new engine object on an empty data directory, configured from cfgs *)
Start(cfgs) ==
    /\ config \in cfgs
    /\ kv = NewKV
    /\ disk = EmptyDir
    /\ now = StartTime
    /\ lastOp = Op("init", None, None)
    /\ preView = NoView
    /\ preGet = None
    /\ preSst = 0
    /\ walLog = <<>>
    /\ nWrites = 0
    /\ nCloses = 0
    /\ nCrashes = 0
    /\ raised = NoError

Init == Start(Configs)

(* the call raises e before it has changed anything *)
Raise(e) ==
    /\ raised' = e
    /\ UNCHANGED <<config, kv, disk, now, lastOp, preView, preGet, preSst, walLog, nWrites, nCloses, nCrashes>>

Step(w2) ==
    /\ kv' = w2.kv
    /\ disk' = w2.disk

Open ==
    /\ Step(open(W))
    /\ IF kv.is_open THEN UNCHANGED <<lastOp, preSst>>
       ELSE /\ lastOp' = Op(IF lastOp.op = "close" THEN "reopen"
                            ELSE IF lastOp.op = "crash" THEN "recover"
                            ELSE IF lastOp.op = "compact_crash" THEN "compact_recover"
                            ELSE "open", None, None)
            /\ preSst' = Len(kv.sst_files)
    /\ raised' = NoError
    /\ UNCHANGED <<walLog, config, now, preView, preGet, nWrites, nCloses, nCrashes>>

Close ==
    IF ~kv.is_open
    THEN /\ Step(close(W, now))
         /\ raised' = NoError
         /\ UNCHANGED <<walLog, config, now, lastOp, preView, preGet, preSst, nWrites, nCloses, nCrashes>>
    ELSE IF kv.wal /\ ~kv.wal_fp
    THEN (* WAL.sync raises "WAL is not open" after the flush *)
         /\ Step(flush_to_sst(W))
         /\ raised' = WalNotOpen
         /\ UNCHANGED <<walLog, config, now, lastOp, preView, preGet, preSst, nWrites, nCloses, nCrashes>>
    ELSE /\ nCloses < MaxCloses
         /\ Step(close(W, now))
         /\ lastOp' = Op("close", None, None)
         /\ preView' = View(W)
         /\ preGet' = None
         /\ preSst' = Len(kv.sst_files)
         /\ nCloses' = nCloses + 1
         /\ raised' = NoError
         /\ UNCHANGED <<walLog, config, now, nWrites, nCrashes>>

Put(key, value) ==
    IF ~ensure_open(W) THEN Raise(NotOpen)
    ELSE IF ~ensure_wal_initialized(W) THEN Raise(WalNotInitialized)
    ELSE IF ~kv.wal_fp THEN Raise(WalNotOpen)
    ELSE /\ nWrites < MaxWrites
         /\ Step(put(W, key, value, now))
         /\ lastOp' = Op("put", key, value)
         /\ preView' = NoView
         /\ preGet' = get(W, key).val
         /\ preSst' = Len(kv.sst_files)
         /\ nWrites' = nWrites + 1
         /\ walLog' = Append(walLog, Op("put", key, value))
         /\ raised' = NoError
         /\ UNCHANGED <<config, now, nCloses, nCrashes>>

Delete(key) ==
    IF ~ensure_open(W) THEN Raise(NotOpen)
    ELSE IF ~ensure_wal_initialized(W) THEN Raise(WalNotInitialized)
    ELSE IF ~kv.wal_fp THEN Raise(WalNotOpen)
    ELSE /\ nWrites < MaxWrites
         /\ Step(delete(W, key, now))
         /\ lastOp' = Op("delete", key, None)
         /\ preView' = NoView
         /\ preGet' = get(W, key).val
         /\ preSst' = Len(kv.sst_files)
         /\ nWrites' = nWrites + 1
         /\ walLog' = Append(walLog, Op("delete", key, None))
         /\ raised' = NoError
         /\ UNCHANGED <<config, now, nCloses, nCrashes>>

(* get returns a value and lazily loads the key ranges of the segments it visits *)
Get(key) ==
    IF ~ensure_open(W) THEN Raise(NotOpen)
    ELSE /\ kv' = [kv EXCEPT !.sst_files = get(W, key).ssts]
         /\ raised' = NoError
         /\ UNCHANGED <<walLog, config, disk, now, lastOp, preView, preGet, preSst, nWrites, nCloses, nCrashes>>

CompactAll ==
    IF ~ensure_open(W) THEN Raise(NotOpen)
    ELSE /\ Step(compact_all(W))
         /\ lastOp' = Op("compact_all", None, None)
         /\ preView' = View(W)
         /\ preGet' = None
         /\ preSst' = Len(kv.sst_files)
         /\ walLog' = <<>>
         /\ raised' = NoError
         /\ UNCHANGED <<config, now, nWrites, nCloses, nCrashes>>

Tick(d) ==
    /\ now + d <= StartTime + MaxElapsed
    /\ now' = now + d
    /\ UNCHANGED <<walLog, config, kv, disk, lastOp, preView, preGet, preSst, nWrites, nCloses, nCrashes, raised>>

(* The process dies between two operations: what the WAL handle buffered since
   the last flush is lost, up to a prefix the buffer may already have written
   out; a new process constructs a new engine object on the same directory. *)
Crash ==
    /\ kv.is_open
    /\ nCrashes < MaxCrashes
    /\ \E n \in 0..Len(kv.wal_buf) :
           disk' = [disk EXCEPT !.wal = @ \o SubSeq(kv.wal_buf, 1, n)]
    /\ kv' = NewKV
    /\ lastOp' = Op("crash", None, None)
    /\ preView' = View(W)
    /\ preGet' = None
    /\ preSst' = Len(kv.sst_files)
    /\ nCrashes' = nCrashes + 1
    /\ raised' = NoError
    /\ UNCHANGED <<walLog, config, now, nWrites, nCloses>>

(* close() whose MemTable flush raises an I/O error: the exception leaves
   close() at engine.py:83, before the WAL is synced and closed and before
   _is_open is cleared *)
CloseFlushFails ==
    /\ kv.is_open
    /\ nCloses < MaxCloses
    /\ DOMAIN kv.memtable # {}
    /\ disk' \in sst_write_fails(disk, next_sst_path(W), sst_text(sst_items(kv.memtable), 1))
    /\ kv' = kv
    /\ raised' = IOError
    /\ lastOp' = Op("close", None, None)
    /\ preView' = View(W)
    /\ preGet' = None
    /\ preSst' = Len(kv.sst_files)
    /\ nCloses' = nCloses + 1
    /\ UNCHANGED <<walLog, config, now, nWrites, nCrashes>>

CoarseSteps == {MaxElapsed}

(* the operations, with the keys and values of the callers drawn from ks, vs *)
Calls(ks, vs) ==
    \/ Open
    \/ Close
    \/ \E k \in ks, v \in vs : Put(k, v)
    \/ \E k \in ks : Delete(k)
    \/ \E k \in Keys : Get(k)
    \/ CompactAll

Next ==
    \/ Calls(Keys, Values)
    \/ \E d \in CoarseSteps : Tick(d)

Spec == Init /\ [][Next]_vars

(* the callers keep CR out of keys and values *)
NextPlain ==
    \/ Calls(PlainKeys, PlainValues)
    \/ \E d \in CoarseSteps : Tick(d)

SpecPlain == Init /\ [][NextPlain]_vars

(* the engine configured in SYNC mode, with crashes; the SYNC policy never
   reads the clock to decide, so time stands still here *)
InitSync == Init /\ config.write_mode = SYNC

NextSyncCrash == Calls(Keys, Values) \/ Crash

SpecSyncCrash == InitSync /\ [][NextSyncCrash]_vars

NextSyncCrashPlain == Calls(PlainKeys, PlainValues) \/ Crash

SpecSyncCrashPlain == InitSync /\ [][NextSyncCrashPlain]_vars

(* SYNC mode without crashes: what the MemTable and the segments hold does
   not depend on when the WAL is synced *)
NextSyncPlain == Calls(PlainKeys, PlainValues)

SpecSyncPlain == InitSync /\ [][NextSyncPlain]_vars

(* the engine configured in BATCH mode, with batches of one and of two writes;
   the calls follow each other without a wait, so the clock stands still and
   no interval elapses between two writes *)
BatchModeSizes == {1, 2}

BatchConfigs == [write_mode : {BATCH}, batch_size : BatchModeSizes,
                 batch_interval_ms : BatchIntervals, memtable_limit : MemtableLimits]

InitBatch == Start(BatchConfigs)

NextBatch == Calls(PlainKeys, PlainValues)

SpecBatch == InitBatch /\ [][NextBatch]_vars

(* BATCH mode with crashes: a crash can cut the WAL file inside the record
   that was being written out *)
NextBatchCrash == NextBatch \/ Crash

SpecBatchCrash == InitBatch /\ [][NextBatchCrash]_vars

(* The process dies inside compact_all, after the old segment files have been
   removed and before the merged segment is completely written: the new file
   is missing or holds a part of its text, the WAL has not been checkpointed,
   and a new process constructs a new engine object on the same directory. *)
CompactCrash ==
    /\ kv.is_open
    /\ nCrashes < MaxCrashes
    /\ LET w1 == flush_to_sst(W)
           m == merge_ssts([merged |-> EmptyMap, deleted |-> {}],
                           w1.kv.sst_files, w1.disk, Len(w1.kv.sst_files))
           w2 == remove_ssts(w1)
       IN /\ w1.kv.sst_files # <<>>
          /\ \E n \in 0..Len(kv.wal_buf) :
                 disk' \in IF DOMAIN m.merged = {}
                           THEN {[w2.disk EXCEPT !.wal = @ \o SubSeq(kv.wal_buf, 1, n)]}
                           ELSE sst_write_fails(
                                    [w2.disk EXCEPT !.wal = @ \o SubSeq(kv.wal_buf, 1, n)],
                                    next_sst_path(w2), sst_text(sst_items(m.merged), 1))
    /\ kv' = NewKV
    /\ lastOp' = Op("compact_crash", None, None)
    /\ preView' = View(W)
    /\ preGet' = None
    /\ preSst' = Len(kv.sst_files)
    /\ nCrashes' = nCrashes + 1
    /\ raised' = NoError
    /\ UNCHANGED <<walLog, config, now, nWrites, nCloses>>

(* one session per process: the engine is reopened after the crash only *)
NextCompactCrash ==
    \/ Open
    \/ \E k \in PlainKeys, v \in PolicyValues : Put(k, v)
    \/ \E k \in PlainKeys : Delete(k)
    \/ \E k \in Keys : Get(k)
    \/ CompactAll
    \/ CompactCrash

SpecCompactCrash == InitSync /\ [][NextCompactCrash]_vars

(* The process dies between two operations and loses exactly what the WAL
   handle buffered since the last sync; every segment file written survives. *)
CrashBetweenOps ==
    /\ kv.is_open
    /\ nCrashes < MaxCrashes
    /\ kv' = NewKV
    /\ lastOp' = Op("crash", None, None)
    /\ preView' = View(W)
    /\ preGet' = None
    /\ preSst' = Len(kv.sst_files)
    /\ nCrashes' = nCrashes + 1
    /\ raised' = NoError
    /\ UNCHANGED <<walLog, config, disk, now, nWrites, nCloses>>

(* BATCH and ADAPTIVE mode with batches of three writes, on an empty data
   directory or on the directory that an earlier process left with the
   session open(); put("a", "x"); close(); the calls follow each other
   without a wait, and compact_all is not called. *)
LossBatchSizes == {3}

LossConfigs == [write_mode : {BATCH, ADAPTIVE}, batch_size : LossBatchSizes,
                batch_interval_ms : BatchIntervals, memtable_limit : MemtableLimits]

SessionLog == <<Op("put", <<"a">>, <<"x">>)>>

SessionDir ==
    [sst |-> MapSet(EmptyMap, 0, sst_text(sst_items(MapSet(EmptyMap, <<"a">>, <<"x">>)), 1)),
     wal |-> put_record(<<"a">>, <<"x">>),
     wal_exists |-> TRUE]

InitLoss ==
    /\ config \in LossConfigs
    /\ kv = NewKV
    /\ disk \in {EmptyDir, SessionDir}
    /\ walLog = IF disk = EmptyDir THEN <<>> ELSE SessionLog
    /\ now = StartTime
    /\ lastOp = Op("init", None, None)
    /\ preView = NoView
    /\ preGet = None
    /\ preSst = 0
    /\ nWrites = 0
    /\ nCloses = 0
    /\ nCrashes = 0
    /\ raised = NoError

NextLoss ==
    \/ Open
    \/ Close
    \/ \E k \in PlainKeys, v \in PlainValues : Put(k, v)
    \/ \E k \in PlainKeys : Delete(k)
    \/ \E k \in Keys : Get(k)
    \/ CrashBetweenOps

SpecLoss == InitLoss /\ [][NextLoss]_vars

(* open() on a closed engine fails with an I/O error while opening the WAL
   file; the directory is as it was *)
OpenWalFails ==
    /\ ~kv.is_open
    /\ Step(open_wal_fails(W))
    /\ raised' = IOError
    /\ lastOp' = Op("open_failed", None, None)
    /\ preView' = NoView
    /\ preGet' = None
    /\ preSst' = Len(kv.sst_files)
    /\ UNCHANGED <<walLog, config, now, nWrites, nCloses, nCrashes>>

NextOpenFails == Calls(PlainKeys, PolicyValues) \/ OpenWalFails

SpecOpenFails == InitSync /\ [][NextOpenFails]_vars

(* the file system can fail the flush of close() *)
NextIOError == Calls(PlainKeys, PlainValues) \/ CloseFlushFails

SpecIOError == Init /\ [][NextIOError]_vars

----------------------------------------------------------------------------
(* Reference definitions used by the properties.  A file is read here by its
   format: lines end with LF, an SST line is key TAB value. *)

RECURSIVE lf_lines(_, _, _)
lf_lines(text, i, cur) ==
    IF i > Len(text) THEN <<>>
    ELSE IF text[i] = LF THEN <<cur>> \o lf_lines(text, i + 1, <<>>)
    ELSE lf_lines(text, i + 1, Append(cur, text[i]))

FileEntries(text) ==
    LET lines == lf_lines(text, 1, <<>>)
        parts == [i \in 1..Len(lines) |-> split_first_tab(lines[i])]
    IN SelectSeq(parts, LAMBDA p : Len(p) = 2)

FileKeys(text) == {FileEntries(text)[i][1] : i \in 1..Len(FileEntries(text))}

FileValue(text, k) ==
    LET es == FileEntries(text)
        first == CHOOSE i \in 1..Len(es) : es[i][1] = k /\ \A j \in 1..(i - 1) : es[j][1] # k
    IN es[first][2]

(* the segments of the SST sequence, by position, whose file mentions k *)
Mentions(k) ==
    {i \in 1..Len(kv.sst_files) :
        /\ kv.sst_files[i].path \in DOMAIN disk.sst
        /\ k \in FileKeys(disk.sst[kv.sst_files[i].path])}

MaxOf(S) == CHOOSE m \in S : \A x \in S : x <= m

Visible(x) == IF x = TOMBSTONE THEN None ELSE x

(* the effective value of k: MemTable entry, else newest segment that mentions k *)
RefLookup(k) ==
    IF k \in DOMAIN kv.memtable THEN Visible(kv.memtable[k])
    ELSE IF Mentions(k) = {} THEN None
    ELSE Visible(FileValue(disk.sst[kv.sst_files[MaxOf(Mentions(k))].path], k))

LiveKeys(view) == {k \in Keys : view[k] # None}

DiskKeys == UNION {FileKeys(disk.sst[p]) : p \in DOMAIN disk.sst}

(* every character of every file under data_dir *)
DiskChars ==
    {disk.wal[i] : i \in 1..Len(disk.wal)}
    \cup UNION {{disk.sst[p][i] : i \in 1..Len(disk.sst[p])} : p \in DOMAIN disk.sst}

(* the text that the calls of a log append to the WAL *)
RECURSIVE WalText(_, _)
WalText(log, i) ==
    IF i > Len(log) THEN <<>>
    ELSE (IF log[i].op = "put" THEN put_record(log[i].key, log[i].val)
          ELSE del_record(log[i].key)) \o WalText(log, i + 1)

(* the MemTable entry the last call for k in a log leaves *)
LastWrite(log, k) ==
    LET idx == {i \in 1..Len(log) : log[i].key = k}
    IN IF idx = {} THEN None
       ELSE LET r == log[MaxOf(idx)] IN IF r.op = "put" THEN r.val ELSE TOMBSTONE

----------------------------------------------------------------------------
(* C1: after close() and then open() on the same data directory, get(k)
   returns for every key what it returned immediately before the close. *)
C1_ReopenRoundTrip == lastOp.op = "reopen" => View(W) = preView

C1_Witness ==
    /\ lastOp.op = "reopen"
    /\ \E k \in Keys : preView[k] \in Values
    /\ \E k \in Keys : k \in DOMAIN kv.memtable /\ kv.memtable[k] = TOMBSTONE
    /\ Len(kv.sst_files) >= 1

(* C2: immediately after put(k, v) returns, get(k) returns v, also when k had
   another value or a tombstone before and when the put flushed the MemTable. *)
C2_PutThenGet == lastOp.op = "put" => get(W, lastOp.key).val = lastOp.val

C2_Witness ==
    /\ lastOp.op = "put"
    /\ DOMAIN kv.memtable = {}
    /\ Len(kv.sst_files) = preSst + 1
    /\ preSst >= 1
    /\ preGet = None
    /\ \E i \in Mentions(lastOp.key) :
           FileValue(disk.sst[kv.sst_files[i].path], lastOp.key) = TOMBSTONE

(* C3: immediately after delete(k) returns, get(k) is absent, also when older
   segments hold a live value for k and the tombstone has been flushed. *)
C3_DeleteThenGet == lastOp.op = "delete" => get(W, lastOp.key).val = None

C3_Witness ==
    /\ lastOp.op = "delete"
    /\ preGet \in Values
    /\ DOMAIN kv.memtable = {}
    /\ \E i \in Mentions(lastOp.key) :
           FileValue(disk.sst[kv.sst_files[i].path], lastOp.key) \in Values

(* C4: get(k) equals the reference lookup: the MemTable entry, else the entry
   of the newest segment that mentions k, else absent; a tombstone reads as
   absent and a segment that does not mention k never stops the search. *)
C4_GetEqualsReference == kv.is_open => \A k \in Keys : get(W, k).val = RefLookup(k)

C4_Witness ==
    /\ kv.is_open
    /\ \E k \in Keys :
        /\ k \notin DOMAIN kv.memtable
        /\ Mentions(k) # {}
        /\ MaxOf(Mentions(k)) < Len(kv.sst_files)
        /\ get(W, k).val \in Values

(* C5: compact_all preserves the logical view: get(k) after it equals get(k)
   immediately before it, for every key. *)
C5_CompactPreservesView == lastOp.op = "compact_all" => View(W) = preView

C5_Witness ==
    /\ lastOp.op = "compact_all"
    /\ preSst >= 2
    /\ \E k \in Keys : preView[k] \in Values
    /\ \E k \in Keys : preView[k] = None
    /\ Len(kv.sst_files) = 1

(* C6: after compact_all no file under data_dir contains the tombstone
   sentinel, and the keys stored in the surviving segments are exactly the
   keys whose effective value before the compaction was not absent. *)
C6_CompactDropsTombstones ==
    lastOp.op = "compact_all" =>
        /\ TOMBSTONE[1] \notin DiskChars
        /\ DiskKeys = LiveKeys(preView)

C6_Witness ==
    /\ lastOp.op = "compact_all"
    /\ preSst >= 1
    /\ LiveKeys(preView) # {}
    /\ LiveKeys(preView) # Keys
    /\ DiskKeys # {}

(* C7: after every compact_all that returns normally the WAL file exists with
   size zero and the WAL handle is open; the writes that follow are appended
   to it and are what a later open() replays. *)
C7_CompactCheckpointsWal ==
    /\ lastOp.op = "compact_all" =>
           disk.wal_exists /\ disk.wal = <<>> /\ kv.wal /\ kv.wal_buf = <<>>
    /\ disk.wal \o kv.wal_buf = WalText(walLog, 1)
    /\ lastOp.op = "reopen" =>
           \A k \in Keys : memtable_get(kv.memtable, k) = LastWrite(walLog, k)

C7_Witness ==
    /\ lastOp.op = "reopen"
    /\ preSst >= 1
    /\ Len(walLog) = 1
    /\ nWrites = 2
    /\ DOMAIN kv.memtable # {}

C9_SyncModeDurable ==
    (lastOp.op = "recover" /\ config.write_mode = SYNC) => View(W) = preView

C9_Witness ==
    /\ lastOp.op = "recover"
    /\ config.write_mode = SYNC
    /\ \E k \in Keys : preView[k] \in Values /\ memtable_get(kv.memtable, k) \in Values
    /\ \E k \in Keys : preView[k] = None /\ k \in DOMAIN kv.memtable

(* C10 as stated: in SYNC mode fsync_count equals the number N of put/delete
   calls made on the engine; in BATCH and ADAPTIVE mode it is at most N; and
   after close() it is at least 1 when a write occurred. *)
C10_FsyncCountMatchesWrites ==
    /\ (kv.is_open /\ config.write_mode = SYNC) => kv.fsync_count = nWrites
    /\ (kv.is_open /\ config.write_mode \in {BATCH, ADAPTIVE}) => kv.fsync_count <= nWrites
    /\ (lastOp.op = "close" /\ nWrites >= 1) => kv.fsync_count >= 1

(* C10 within the first open() lifecycle of an engine object, where the
   counter has not yet carried syncs over from an earlier lifecycle. *)
C10_FirstLifecycle ==
    nCloses = 0 =>
        /\ (kv.is_open /\ config.write_mode = SYNC) => kv.fsync_count = nWrites
        /\ (kv.is_open /\ config.write_mode \in {BATCH, ADAPTIVE}) => kv.fsync_count <= nWrites

(* what the counter holds over the lifecycles of one engine object *)
C10_CountsClosesToo ==
    /\ config.write_mode = SYNC => kv.fsync_count = nWrites + nCloses
    /\ kv.fsync_count <= nWrites + nCloses

(* ceil(n / b) *)
CeilDiv(n, b) == (n + b - 1) \div b

(* C11: in BATCH mode, N writes with batch size B issued without the interval
   elapsing between them give at most ceil(N/B) + 1 syncs, the sync of the
   close() that follows them included. *)
C11_BatchSyncBound ==
    (config.write_mode = BATCH /\ (nCloses = 0 \/ (nCloses = 1 /\ lastOp.op = "close"))) =>
        kv.fsync_count <= CeilDiv(nWrites, config.batch_size) + 1

C11_Witness ==
    /\ config.write_mode = BATCH
    /\ lastOp.op = "close"
    /\ nCloses = 1
    /\ nWrites >= 2
    /\ kv.fsync_count >= 3
    /\ kv.fsync_count = CeilDiv(nWrites, config.batch_size) + 1

(* C12: in BATCH and ADAPTIVE mode, whenever appended records are pending, no
   more than batch_interval_ms has passed since the previous sync: the
   interval forces a sync even when the caller issues no further operation. *)
C12_IntervalBoundsUnsynced ==
    (kv.is_open /\ config.write_mode \in {BATCH, ADAPTIVE} /\ kv.pending_wal_ops > 0) =>
        ~interval_elapsed(W, now)

(* records are pending and the interval has passed without a call *)
C12_Witness ==
    /\ kv.is_open
    /\ config.write_mode \in {BATCH, ADAPTIVE}
    /\ kv.pending_wal_ops > 0
    /\ kv.wal_buf # <<>>
    /\ kv.last_sync_time > 0
    /\ lastOp.op \in {"put", "delete"}
    /\ interval_elapsed(W, now)

(* a call of put, get, delete or compact_all *)
DataCall ==
    \/ \E k \in Keys, v \in Values : Put(k, v)
    \/ \E k \in Keys : Delete(k)
    \/ \E k \in Keys : Get(k)
    \/ CompactAll

(* C13: every put, get, delete and compact_all called on an engine that is not
   open raises NotOpen and leaves the engine object (MemTable, SST sequence,
   sync-policy counters) and the files unchanged; called on an engine that
   open() has opened, before or after, it returns normally. *)
C13_ClosedEngineRejects ==
    [][DataCall => IF kv.is_open THEN raised' = NoError
                   ELSE raised' = NotOpen /\ kv' = kv /\ disk' = disk]_vars

(* a call was rejected on an engine that close() left with segments and a WAL *)
C13_Witness ==
    /\ raised = NotOpen
    /\ ~kv.is_open
    /\ nCloses >= 1
    /\ Len(kv.sst_files) >= 1
    /\ disk.wal # <<>>

(* C14: close() leaves the engine without an open WAL handle on every path
   out of it, also when its MemTable flush fails with an I/O error. *)
C14_CloseReleasesWal == lastOp.op = "close" => ~kv.wal

(* close() has raised the I/O error of its flush *)
C14_Witness ==
    /\ lastOp.op = "close"
    /\ raised = IOError
    /\ DOMAIN kv.memtable # {}
    /\ kv.wal_buf # <<>>

(* the MemTable that the complete records of a WAL text, those that end with
   LF, replay to *)
ReplayComplete(text) == replay_lines(EmptyMap, lf_lines(text, 1, <<>>), 1)

(* what follows the last LF of a text *)
TrailingPart(text) ==
    LET ends == {i \in 1..Len(text) : text[i] = LF}
    IN IF ends = {} THEN text ELSE SubSeq(text, MaxOf(ends) + 1, Len(text))

(* C15: the replay of open() drops a partial trailing line of the WAL: the
   MemTable after a recovery is the replay of the complete records only. *)
C15_PartialLineDropped ==
    lastOp.op = "recover" => kv.memtable = ReplayComplete(disk.wal)

(* a recovery from a WAL that ends inside a record *)
C15_Witness ==
    /\ lastOp.op = "recover"
    /\ TrailingPart(disk.wal) # <<>>
    /\ disk.wal # TrailingPart(disk.wal)

(* the descriptors of the SST files of a directory, in name order, with the
   key range not loaded *)
DiskSsts(d) ==
    LET names == SortedPaths(DOMAIN d.sst)
    IN [i \in 1..Len(names) |-> SSTFile(names[i])]

(* C16: after close() and then open() the state is rebuilt from disk only: the
   MemTable is the replay of the WAL file into an empty map and the SST
   sequence is the files of data_dir in name order, whatever MemTable and SST
   list the object held before. *)
C16_ReopenRebuildsFromDisk ==
    [][(lastOp.op = "close" /\ lastOp'.op = "reopen") =>
           /\ kv'.memtable = replay_into(disk', EmptyMap)
           /\ kv'.sst_files = DiskSsts(disk')]_vars

(* a reopen that replayed records into the MemTable that close() had emptied,
   over segments whose key ranges the object had loaded *)
C16_Witness ==
    /\ lastOp.op = "reopen"
    /\ DOMAIN kv.memtable # {}
    /\ \E k \in DOMAIN kv.memtable : kv.memtable[k] = TOMBSTONE
    /\ Len(kv.sst_files) >= 2

(* the entry of k in the newest segment whose file mentions k *)
NewestEntry(k) == FileValue(disk.sst[kv.sst_files[MaxOf(Mentions(k))].path], k)

(* C17: delete(k) stores the tombstone sentinel in the MemTable instead of
   removing the entry, and a flush writes it to the new segment: as long as
   the delete is the last write of k since the last compact_all, k is in the
   MemTable as a tombstone or the newest segment that mentions k stores the
   tombstone, so that the lookup of k is absent whatever older segments hold. *)
C17_DeleteStoresTombstone ==
    \A k \in Keys :
        LastWrite(walLog, k) = TOMBSTONE =>
            /\ IF k \in DOMAIN kv.memtable THEN kv.memtable[k] = TOMBSTONE
               ELSE Mentions(k) # {} /\ NewestEntry(k) = TOMBSTONE
            /\ RefLookup(k) = None

(* a flushed tombstone over an older segment that holds a value for the key *)
C17_Witness ==
    \E k \in Keys :
        /\ LastWrite(walLog, k) = TOMBSTONE
        /\ k \notin DOMAIN kv.memtable
        /\ NewestEntry(k) = TOMBSTONE
        /\ \E i \in Mentions(k) : FileValue(disk.sst[kv.sst_files[i].path], k) \in Values

(* every segment file of the directory is there, unchanged, after the step *)
SegmentsKept ==
    \A p \in DOMAIN disk.sst : p \in DOMAIN disk'.sst /\ disk'.sst[p] = disk.sst[p]

(* C18: segment files are immutable: no step other than compact_all modifies,
   overwrites or deletes an existing segment file, and the path the next
   flush of an open engine would choose (index = number of segments) names no
   existing file. *)
C18_SegmentsImmutable ==
    [][/\ SegmentsKept \/ CompactAll
       /\ kv'.is_open => Len(kv'.sst_files) \notin DOMAIN disk'.sst]_vars

(* a flush added a segment next to older ones on a reopened engine *)
C18_Witness ==
    /\ lastOp.op \in {"put", "delete"}
    /\ nCloses >= 1
    /\ preSst >= 1
    /\ Len(kv.sst_files) = preSst + 1
    /\ Cardinality(DOMAIN disk.sst) = preSst + 1

(* C19: fsync_count is the number of WAL syncs of the current open()
   lifecycle: right after open(), before any write of the new session, it
   is 0. *)
C19_FsyncCountPerLifecycle ==
    lastOp.op \in {"open", "reopen", "recover"} => kv.fsync_count = 0

(* a session after an earlier one that synced *)
C19_Witness ==
    /\ lastOp.op = "reopen"
    /\ nWrites >= 1
    /\ kv.pending_wal_ops = 0

(* the lines of a segment text are key TAB value lines in strictly ascending
   key order, and there is at least one *)
WellFormedSegment(text) ==
    LET es == FileEntries(text)
    IN /\ Len(es) >= 1
       /\ Len(es) = Len(lf_lines(text, 1, <<>>))
       /\ text[Len(text)] = LF
       /\ \A i \in 1..(Len(es) - 1) : str_less(es[i][1], es[i + 1][1], 1)

(* C20: in every reachable state every SST file, written by a flush or by
   compact_all, has its lines in strictly ascending key order, so each key at
   most once, and is not empty. *)
C20_SegmentsSortedNonEmpty ==
    \A p \in DOMAIN disk.sst : WellFormedSegment(disk.sst[p])

(* compact_all has merged segments into a file of several keys, next to the
   files that flushes wrote before *)
C20_Witness ==
    /\ lastOp.op = "compact_all"
    /\ preSst >= 2
    /\ \E p \in DOMAIN disk.sst : Len(FileEntries(disk.sst[p])) >= 2

(* a descriptor has its key range set *)
RangeSet(sst) == sst.min_key # None /\ sst.max_key # None

(* the segment file of a descriptor holds at least one character *)
NonEmptyFile(sst) == sst.path \in DOMAIN disk.sst /\ disk.sst[sst.path] # <<>>

(* C21: for every descriptor of the SST sequence, in every reachable state,
   min_key <= max_key when both are set, and both are set if and only if the
   segment file is not empty, also for the descriptors that open() created
   and that no search has visited yet. *)
C21_RangeSetIffNonEmpty ==
    \A i \in 1..Len(kv.sst_files) :
        LET sst == kv.sst_files[i]
        IN /\ RangeSet(sst) => ~str_less(sst.max_key, sst.min_key, 1)
           /\ RangeSet(sst) <=> NonEmptyFile(sst)

(* a descriptor that open() created, not yet visited by a search *)
C21_Witness ==
    /\ lastOp.op = "reopen"
    /\ \E i \in 1..Len(kv.sst_files) :
           ~RangeSet(kv.sst_files[i]) /\ NonEmptyFile(kv.sst_files[i])

(* C21 for the descriptors whose range is set: the range is set as a whole,
   the file is not empty, and min_key and max_key are its first and last key *)
C21_RangeOfLoaded ==
    \A i \in 1..Len(kv.sst_files) :
        LET sst == kv.sst_files[i]
            es == FileEntries(disk.sst[sst.path])
        IN /\ (sst.min_key = None) <=> (sst.max_key = None)
           /\ RangeSet(sst) =>
                  /\ NonEmptyFile(sst)
                  /\ sst.min_key = es[1][1]
                  /\ sst.max_key = es[Len(es)][1]
                  /\ ~str_less(sst.max_key, sst.min_key, 1)

(* the snapshot a segment file was written from, read by the file format *)
SnapshotOf(text) == [k \in FileKeys(text) |-> FileValue(text, k)]

(* search(k) on a segment agrees with the snapshot M it was written from *)
SearchAgrees(sst, k) ==
    LET M == SnapshotOf(disk.sst[sst.path])
    IN search(sst, disk, k).val = IF k \in DOMAIN M THEN M[k] ELSE None

(* C22: key-range pruning never changes an answer: for every segment written
   by write_from_memtable from a snapshot M and every key k, search(k) returns
   M[k] (the raw value, tombstone included) if k is in M and absent otherwise,
   both for the descriptor whose range was set at write time and for the
   descriptor whose range is loaded lazily after a reopen. *)
C22_PruningKeepsAnswers ==
    \A p \in DOMAIN disk.sst : \A k \in Keys :
        /\ SearchAgrees(sst_written(p, SnapshotOf(disk.sst[p])), k)
        /\ SearchAgrees(SSTFile(p), k)

(* a segment of two keys, so that a key outside the range and keys at both
   ends of the range are searched, and one with a tombstone *)
C22_Witness ==
    \E p \in DOMAIN disk.sst :
        LET M == SnapshotOf(disk.sst[p])
        IN /\ Cardinality(DOMAIN M) = 2
           /\ \E k \in DOMAIN M : M[k] = TOMBSTONE
           /\ \E k \in Keys : pruned(sst_written(p, M), k)

(* the operations of the public interface that can change the MemTable *)
PublicOps == {"open", "reopen", "recover", "put", "delete", "compact_all"}

(* C23: the MemTable is bounded by its entry count: when a public operation
   on an open engine has returned (open, put, delete, compact_all), the
   MemTable holds fewer than memtable_limit entries; a put or delete that
   brings it to memtable_limit entries flushes and leaves it empty. *)
C23_MemTableBelowLimit ==
    (kv.is_open /\ lastOp.op \in PublicOps) =>
        /\ Cardinality(DOMAIN kv.memtable) < config.memtable_limit
        /\ (lastOp.op \in {"put", "delete"} /\ Len(kv.sst_files) > preSst) =>
               kv.memtable = EmptyMap

(* an open() whose replay filled the MemTable up to memtable_limit *)
C23_Witness ==
    /\ kv.is_open
    /\ lastOp.op = "reopen"
    /\ Cardinality(DOMAIN kv.memtable) >= config.memtable_limit

(* C23 for put, delete and compact_all alone *)
C23_WritesKeepBound ==
    (kv.is_open /\ lastOp.op \in {"put", "delete", "compact_all"}) =>
        /\ Cardinality(DOMAIN kv.memtable) < config.memtable_limit
        /\ (lastOp.op \in {"put", "delete"} /\ Len(kv.sst_files) > preSst) =>
               kv.memtable = EmptyMap

(* the well-formed records of a WAL text, in file order, as <<key, entry>>:
   the lines that end with LF and read PUT TAB key TAB value or DEL TAB key *)
WalRecords(text) ==
    LET lines == lf_lines(text, 1, <<>>)
        parts == [i \in 1..Len(lines) |-> split_tab(lines[i], 1, <<>>)]
        wellFormed(p) == \/ p[1] = <<"PUT">> /\ Len(p) = 3
                         \/ p[1] = <<"DEL">> /\ Len(p) = 2
        kept == SelectSeq(parts, wellFormed)
    IN [i \in 1..Len(kept) |->
           <<kept[i][2], IF kept[i][1] = <<"PUT">> THEN kept[i][3] ELSE TOMBSTONE>>]

(* the entry of k in a map, None when k has none *)
EntryOf(m, k) == IF k \in DOMAIN m THEN m[k] ELSE None

(* the maps replay_into is applied to *)
ReplayMaps == {EmptyMap, MapSet(MapSet(EmptyMap, <<"a">>, <<"y">>), <<"b">>, TOMBSTONE)}

(* C24: replay_into applied to a map gives every key that has a well-formed
   record the effect of its last record in file order (PUT k v: v, DEL k: the
   tombstone) and leaves every other key as it was; a missing WAL file and an
   empty one leave the map unchanged. *)
C24_ReplayLastRecordWins ==
    \A m0 \in ReplayMaps :
        LET m == replay_into(disk, m0)
            recs == IF disk.wal_exists THEN WalRecords(disk.wal) ELSE <<>>
        IN \A k \in Keys \cup DOMAIN m \cup DOMAIN m0 :
               LET idx == {i \in 1..Len(recs) : recs[i][1] = k}
               IN EntryOf(m, k) = IF idx = {} THEN EntryOf(m0, k)
                                  ELSE recs[MaxOf(idx)][2]

(* a WAL in which a key has two records, the last one a DEL *)
C24_Witness ==
    LET recs == WalRecords(disk.wal)
    IN \E i, j \in 1..Len(recs) :
           i < j /\ recs[i][1] = recs[j][1] /\ recs[i][2] # TOMBSTONE /\ recs[j][2] = TOMBSTONE

(* The sync policy under a running clock: every write mode, batches of one and
   of two writes, one key and one value, and waits of 0.1 ms and 0.4 ms
   between the calls, so that a sync sees a throughput in each band. get is
   left out: it reads no sync-policy field and writes none. *)
FineSteps == {1, 4}

PolicyConfigs == [write_mode : Modes, batch_size : BatchModeSizes,
                  batch_interval_ms : BatchIntervals, memtable_limit : {2}]

InitPolicy == Start(PolicyConfigs)

NextPolicy ==
    \/ Open
    \/ Close
    \/ \E k \in PolicyKeys, v \in PolicyValues : Put(k, v)
    \/ \E k \in PolicyKeys : Delete(k)
    \/ CompactAll
    \/ \E d \in FineSteps : Tick(d)

SpecPolicy == InitPolicy /\ [][NextPolicy]_vars

(* a step that is an accepted put or delete; a step that performs a WAL sync *)
WriteStep == nWrites' = nWrites + 1
SyncStep == kv'.fsync_count = kv.fsync_count + 1

(* pending_ops as the step's sync decision or sync sees it *)
PendingSeen == IF WriteStep THEN kv.pending_wal_ops + 1 ELSE kv.pending_wal_ops

(* now - last_sync_time > batch_interval_ms *)
IntervalOver ==
    (now - kv.last_sync_time) * MsPerSecond > config.batch_interval_ms * TicksPerSecond

(* C25: the hook after a WAL append syncs exactly by the mode: SYNC always;
   BATCH iff pending_ops >= batch_size or now - last_sync_time >
   batch_interval_ms; ADAPTIVE iff pending_ops >= adaptive_batch_size or
   now - last_sync_time > batch_interval_ms. A write performs at most one
   sync, and pending_ops is incremented before the decision. *)
C25_SyncByMode ==
    [][WriteStep =>
          LET due == \/ config.write_mode = SYNC
                     \/ /\ config.write_mode = BATCH
                        /\ (PendingSeen >= config.batch_size \/ IntervalOver)
                     \/ /\ config.write_mode = ADAPTIVE
                        /\ (PendingSeen >= kv.adaptive_batch_size \/ IntervalOver)
          IN IF due
             THEN /\ kv'.fsync_count = kv.fsync_count + 1
                  /\ kv'.pending_wal_ops = 0
                  /\ kv'.wal_buf = <<>>
                  /\ kv'.last_sync_time = now
             ELSE /\ kv'.fsync_count = kv.fsync_count
                  /\ kv'.pending_wal_ops = PendingSeen
                  /\ kv'.wal_buf # <<>>
                  /\ kv'.last_sync_time = kv.last_sync_time]_vars

(* an ADAPTIVE write that does not sync, after one that did *)
C25_Witness ==
    /\ config.write_mode = ADAPTIVE
    /\ lastOp.op \in {"put", "delete"}
    /\ kv.fsync_count = 1
    /\ kv.pending_wal_ops = 1

(* C26: at each sync with elapsed defined, elapsed > 0 and pending > 0,
   adaptive_batch_size follows the band rule: a throughput pending / elapsed
   of at least 10000 per second sets it to 4 * batch_size, one of at most
   1000 sets it to batch_size, anything between leaves it unchanged; so
   adaptive_batch_size is always batch_size or 4 * batch_size. *)
C26_AdaptiveBandRule ==
    [][/\ (SyncStep /\ kv.last_sync_time # 0 /\ now > kv.last_sync_time /\ PendingSeen > 0) =>
             LET elapsed == now - kv.last_sync_time
             IN kv'.adaptive_batch_size =
                    IF PendingSeen * TicksPerSecond >= 10000 * elapsed
                    THEN 4 * config.batch_size
                    ELSE IF PendingSeen * TicksPerSecond <= 1000 * elapsed
                    THEN config.batch_size
                    ELSE kv.adaptive_batch_size
       /\ kv'.adaptive_batch_size \in {config.batch_size, 4 * config.batch_size}]_vars

(* a sync saw a high throughput and raised adaptive_batch_size *)
C26_Witness ==
    /\ kv.adaptive_batch_size = 4 * config.batch_size
    /\ kv.fsync_count >= 2

(* C27: adaptive_batch_size changes only inside a sync: the first sync of an
   engine (last_sync_time still 0) does not change it, a sync with
   pending_ops = 0 does not change it, and no step that does not sync
   changes it. *)
C27_AdaptiveChangesOnlyInSync ==
    [][/\ ~SyncStep => kv'.adaptive_batch_size = kv.adaptive_batch_size
       /\ (SyncStep /\ kv.last_sync_time = 0) =>
              kv'.adaptive_batch_size = kv.adaptive_batch_size
       /\ (SyncStep /\ PendingSeen = 0) =>
              kv'.adaptive_batch_size = kv.adaptive_batch_size]_vars

(* the sync of a close() with nothing pending (both writes synced), after a
   sync that raised adaptive_batch_size *)
C27_Witness ==
    /\ lastOp.op = "close"
    /\ config.write_mode = ADAPTIVE
    /\ config.batch_size = 1
    /\ kv.adaptive_batch_size = 4
    /\ nWrites = 2
    /\ kv.fsync_count = 3

(* C28: compact_all is not failure-atomic: a crash after the old segment files
   have been removed and before the merged segment is completely written
   leaves a directory from which open() does not reproduce the get results
   from before the compaction. What open() finds then: none of the old
   segments; every key that the WAL replays reads as before; a key that the
   WAL does not replay reads absent when no part of the merged file exists. *)
C28_CompactCrashLosesSegments ==
    lastOp.op = "compact_recover" =>
        /\ Len(kv.sst_files) <= 1
        /\ \A k \in Keys :
               IF k \in DOMAIN kv.memtable THEN View(W)[k] = preView[k]
               ELSE DOMAIN disk.sst = {} => View(W)[k] = None

(* after the recovery a key that had a value before the compaction is absent *)
C28_Witness ==
    /\ lastOp.op = "compact_recover"
    /\ \E k \in Keys : preView[k] # None /\ View(W)[k] = None

(* C29: the lifecycle is closed -> open -> closed and can be cycled: open() on
   a closed engine opens it and close() on an open engine closes it; open()
   on an open engine changes nothing (not the MemTable with its unflushed
   writes, not the SST list, not the WAL handle and what it buffers), and
   close() on a closed engine changes nothing (no flush, no sync, no
   fsync_count increment). *)
C29_LifecycleTwoStates ==
    IF kv.is_open
    THEN /\ open(W) = W
         /\ ~close(W, now).kv.is_open
    ELSE /\ close(W, now) = W
         /\ open(W).kv.is_open

(* an open engine in its second session, with an unflushed write in the
   MemTable whose WAL record is still buffered *)
C29_Witness ==
    /\ kv.is_open
    /\ nCloses >= 1
    /\ DOMAIN kv.memtable # {}
    /\ kv.wal_buf # <<>>
    /\ kv.sst_files # <<>>

(* a closed engine after its first session, with a sync counted *)
C29_WitnessClosed ==
    /\ ~kv.is_open
    /\ nCloses >= 1
    /\ kv.fsync_count >= 1

(* C30: write-ahead invariant: between two checkpoints the WAL, file plus
   buffered appends, holds in caller order exactly one record for every put
   and delete accepted since the last compact_all, across close/open cycles;
   and every MemTable entry k -> x agrees with the last WAL record for k. *)
C30_WriteAhead ==
    /\ disk.wal \o kv.wal_buf = WalText(walLog, 1)
    /\ \A k \in DOMAIN kv.memtable : kv.memtable[k] = LastWrite(walLog, k)

(* a second session whose MemTable was replayed from a WAL of two records
   for one key *)
C30_Witness ==
    /\ lastOp.op = "reopen"
    /\ Len(walLog) = 2
    /\ walLog[1].key = walLog[2].key
    /\ walLog[1].key \in DOMAIN kv.memtable

(* C30, the WAL text alone *)
C30_WalHoldsEveryRecord == disk.wal \o kv.wal_buf = WalText(walLog, 1)

(* the get results after the first n calls of a log of puts and deletes *)
PrefixView(log, n) == [k \in Keys |-> Visible(LastWrite(SubSeq(log, 1, n), k))]

(* the number of records in a WAL text *)
RecordCount(text) == Cardinality({i \in 1..Len(text) : text[i] = LF})

(* C31: crash recovery is prefix-consistent in BATCH and ADAPTIVE mode: after
   a crash between operations that loses exactly the WAL records appended
   since the last sync, while every segment file survives, and a reopen, the
   get results over all keys are those of the state after some prefix of the
   completed puts and deletes that contains every synced write. *)
C31_RecoveryIsPrefix ==
    lastOp.op = "recover" =>
        \E n \in RecordCount(disk.wal)..Len(walLog) : View(W) = PrefixView(walLog, n)

(* a recovery after two writes that were flushed to segments and whose WAL
   records were lost *)
C31_Witness ==
    /\ lastOp.op = "recover"
    /\ Len(walLog) >= RecordCount(disk.wal) + 2
    /\ Cardinality(DOMAIN disk.sst) >= 2

(* C32: an open() followed by close() with no write in between leaves the
   persisted state as it was: the same segment files with the same contents
   and the same WAL contents, however often the cycle is run. *)
C32_OpenCloseKeepsFiles ==
    [][(lastOp.op \in {"open", "reopen", "recover"} /\ lastOp'.op = "close") =>
          /\ disk'.sst = disk.sst
          /\ disk'.wal = disk.wal]_vars

(* the close() of a session without a write, on a directory whose WAL holds
   a record *)
C32_Witness ==
    /\ lastOp.op = "close"
    /\ nWrites = 0
    /\ disk.wal # <<>>

(* C32 on a directory whose WAL is empty or missing *)
C32_EmptyWalKeepsFiles ==
    [][(lastOp.op \in {"open", "reopen", "recover"} /\ lastOp'.op = "close" /\ disk.wal = <<>>) =>
          /\ disk'.sst = disk.sst
          /\ disk'.wal = disk.wal]_vars

(* C33: the number of unsynced writes is bounded by the batch threshold: when
   a put or delete has returned, pending_ops is 0 in SYNC mode, below
   batch_size in BATCH mode and below the current adaptive_batch_size in
   ADAPTIVE mode; every sync resets pending_ops to 0 and adds exactly 1 to
   fsync_count; after close() pending_ops is 0. *)
C33_PendingBelowThreshold ==
    [][/\ lastOp'.op \in {"put", "delete"} =>
             kv'.pending_wal_ops <
                 IF config.write_mode = SYNC THEN 1
                 ELSE IF config.write_mode = BATCH THEN config.batch_size
                 ELSE kv'.adaptive_batch_size
       /\ lastOp'.op = "close" => kv'.pending_wal_ops = 0
       /\ kv'.fsync_count \in {kv.fsync_count, kv.fsync_count + 1}
       /\ kv'.fsync_count = kv.fsync_count + 1 =>
             kv'.pending_wal_ops = 0 /\ kv'.wal_buf = <<>>
       /\ Len(disk'.wal) > Len(disk.wal) => kv'.fsync_count = kv.fsync_count + 1]_vars

(* a BATCH write that stays unsynced, one below the batch size, after a sync *)
C33_Witness ==
    /\ config.write_mode = BATCH
    /\ lastOp.op \in {"put", "delete"}
    /\ kv.pending_wal_ops = config.batch_size - 1
    /\ kv.pending_wal_ops > 0
    /\ kv.fsync_count >= 1

(* the checkpoint of compact_all writes the buffered records out without a
   sync of the policy: pending_ops keeps counting them *)
C33_CheckpointKeepsPending ==
    [][(lastOp'.op = "compact_all" /\ lastOp.op # "compact_all") =>
          /\ kv'.pending_wal_ops = kv.pending_wal_ops
          /\ kv'.fsync_count = kv.fsync_count]_vars

(* after a compact_all pending_ops is positive although the WAL is empty *)
C33_WitnessStalePending ==
    /\ lastOp.op = "compact_all"
    /\ kv.pending_wal_ops > 0
    /\ disk.wal = <<>>
    /\ kv.wal_buf = <<>>

(* C34: if open() fails with an I/O error while opening the WAL, the engine
   is left closed: data operations afterwards raise NotOpen, and a following
   open() runs the initialization again instead of returning as already
   open. *)
C34_FailedOpenLeavesClosed ==
    lastOp.op = "open_failed" =>
        /\ ~kv.is_open
        /\ ~ensure_open(W)
        /\ open(W).kv.wal_fp

(* a failed open() on a directory that holds a segment and a WAL record *)
C34_Witness ==
    /\ lastOp.op = "open_failed"
    /\ raised = IOError
    /\ disk.wal # <<>>
    /\ DOMAIN disk.sst # {}

(* after the failed open() the engine counts as open with a WAL object that
   has no file: open() returns at once, and put and delete do not get past
   the WAL append until a compact_all has replaced the WAL object *)
C34_FailedOpenStaysOpen ==
    lastOp.op = "open_failed" =>
        /\ kv.is_open
        /\ open(W) = W
        /\ kv.wal /\ ~kv.wal_fp
        /\ kv.memtable = EmptyMap

====
